---- MODULE Spec2Model ----
(***************************************************************************)
(* A model of the table gateway of src/tgw.go: the struct-tag metadata     *)
(* extraction (parseMeta), the SQL assembly helpers and the five gateway   *)
(* operations, with the database handle (sqlx over a single table with an  *)
(* auto-increment primary key) as the environment.                         *)
(*                                                                         *)
(* Strings are TLA+ strings.  The backquote character of the generated SQL *)
(* is written ' in the model's strings (BQ), because the module's lexer    *)
(* does not accept a backquote inside a string.                            *)
(***************************************************************************)
EXTENDS Integers, Sequences, FiniteSets, TLC

VARIABLES
    fields,     \* the struct type of dest: a sequence of [Name, db, tgw]
    ent,        \* the struct value of dest: field index -> value
    rows,       \* the table behind the handle: primary key -> (column -> value)
    nextId,     \* the table's auto-increment counter
    sent,       \* the statements handed to the handle during the last call
    call,       \* the last call: its operation, inputs and returned error
    dest        \* the destination collection of the last Select

vars == <<fields, ent, rows, nextId, sent, call, dest>>

(***************************************************************************)
(* Bounds of the model.                                                    *)
(***************************************************************************)
MaxFields == 3      \* fields of a struct handed to parseMeta alone
MaxEntFields == 3   \* fields of an entity handed to the CRUD operations
MaxId == 1          \* rows the auto-increment table can hold
MaxTerms == 2       \* keys of a Selectors / OrderBy map
UintRange == 15     \* the largest value of the model's unsigned word

(***************************************************************************)
(* Struct tags (src/tgw.go:26-32) and errors (src/tgw.go:55-59).           *)
(***************************************************************************)
tgwPrimary == "primary"
tgwInsert == "insert"
tgwUpdate == "update"

ErrStructConfig == "invalid or incomplete tags for given struct"
ErrNoPrimary == "no primary key found"
ErrMultiPrimary == "multiple primary keys not yet supported"
nil == "nil"

BQ == "'"

(***************************************************************************)
(* strings.Split(tag, ","): a tag is a sequence of chunks; the chunk ","   *)
(* is the separator and no other chunk holds a comma.  The result is the   *)
(* sequence of the strings between separators; an empty tag gives one      *)
(* empty string.                                                           *)
(***************************************************************************)
RECURSIVE SplitFrom(_, _, _)
SplitFrom(tag, i, cur) ==
    IF i > Len(tag) THEN <<cur>>
    ELSE IF tag[i] = "," THEN <<cur>> \o SplitFrom(tag, i + 1, "")
    ELSE SplitFrom(tag, i + 1, cur \o tag[i])

Split(tag) == SplitFrom(tag, 1, "")

(***************************************************************************)
(* strings.Join(elems, sep)                                                *)
(***************************************************************************)
RECURSIVE Join(_, _)
Join(elems, sep) ==
    IF Len(elems) = 0 THEN ""
    ELSE IF Len(elems) = 1 THEN elems[1]
    ELSE elems[1] \o sep \o Join(Tail(elems), sep)

inArray(needle, haystack) ==
    \E i \in 1..Len(haystack) : haystack[i] = needle

quoteIdents(names) ==
    [i \in 1..Len(names) |-> BQ \o names[i] \o BQ]

quoteUpdateSet(names) ==
    [i \in 1..Len(names) |-> BQ \o names[i] \o BQ \o " = :" \o names[i]]

quoteSelectSet(names) ==
    [i \in 1..Len(names) |-> BQ \o names[i] \o BQ \o " = ?"]

\* quoteNamedValues with positional placeholders instead of named ones
quoteNamedValues_positional(names) ==
    [i \in 1..Len(names) |-> "?"]

quoteNamedValues(names) ==
    [i \in 1..Len(names) |-> ":" \o names[i]]

(***************************************************************************)
(* parseMeta: the scan over the declared fields, with its early return on  *)
(* a second primary, then the two checks after the loop.                   *)
(***************************************************************************)
EmptyMeta ==
    [PrimaryName |-> "", PrimaryDB |-> "", InsertCols |-> <<>>, UpdateCols |-> <<>>]

\* fieldStep with the insert column put in front of the list instead of appended
fieldStep_prepend(s, f) ==
    LET ops == Split(f.tgw)
        s1 == IF inArray(tgwPrimary, ops)
              THEN [s EXCEPT !.PrimaryName = f.Name, !.PrimaryDB = f.db]
              ELSE s
        s2 == IF inArray(tgwInsert, ops)
              THEN [s1 EXCEPT !.InsertCols = <<f.db>> \o @]
              ELSE s1
    IN  IF inArray(tgwUpdate, ops)
        THEN [s2 EXCEPT !.UpdateCols = Append(@, f.db)]
        ELSE s2

\* fieldStep with the insert and update lists taken one for the other
fieldStep_swapped(s, f) ==
    LET ops == Split(f.tgw)
        s1 == IF inArray(tgwPrimary, ops)
              THEN [s EXCEPT !.PrimaryName = f.Name, !.PrimaryDB = f.db]
              ELSE s
        s2 == IF inArray(tgwUpdate, ops)
              THEN [s1 EXCEPT !.InsertCols = Append(@, f.db)]
              ELSE s1
    IN  IF inArray(tgwInsert, ops)
        THEN [s2 EXCEPT !.UpdateCols = Append(@, f.db)]
        ELSE s2

fieldStep(s, f) ==
    LET ops == Split(f.tgw)
        s1 == IF inArray(tgwPrimary, ops)
              THEN [s EXCEPT !.PrimaryName = f.Name, !.PrimaryDB = f.db]
              ELSE s
        s2 == IF inArray(tgwInsert, ops)
              THEN [s1 EXCEPT !.InsertCols = Append(@, f.db)]
              ELSE s1
    IN  IF inArray(tgwUpdate, ops)
        THEN [s2 EXCEPT !.UpdateCols = Append(@, f.db)]
        ELSE s2

\* scanFields with the second-primary test made on the column name instead of
\* the field name
RECURSIVE scanFields_byDB(_, _, _)
scanFields_byDB(e, x, s) ==
    IF x > Len(e) THEN [meta |-> s, err |-> nil]
    ELSE IF inArray(tgwPrimary, Split(e[x].tgw)) /\ s.PrimaryDB # ""
         THEN [meta |-> EmptyMeta, err |-> ErrMultiPrimary]
         ELSE scanFields_byDB(e, x + 1, fieldStep(s, e[x]))

RECURSIVE scanFields(_, _, _)
scanFields(e, x, s) ==
    IF x > Len(e) THEN [meta |-> s, err |-> nil]
    ELSE IF inArray(tgwPrimary, Split(e[x].tgw)) /\ s.PrimaryName # ""
         THEN [meta |-> EmptyMeta, err |-> ErrMultiPrimary]
         ELSE scanFields(e, x + 1, fieldStep(s, e[x]))

\* parseMeta with the two checks after the loop in the other order
parseMeta_configFirst(e) ==
    LET r == scanFields(e, 1, EmptyMeta)
    IN  IF r.err # nil THEN r
        ELSE IF Len(r.meta.InsertCols) = 0
             THEN [meta |-> EmptyMeta, err |-> ErrStructConfig]
        ELSE IF r.meta.PrimaryName = "" \/ r.meta.PrimaryDB = ""
             THEN [meta |-> EmptyMeta, err |-> ErrNoPrimary]
        ELSE r

\* parseMeta without the check of the insert columns
parseMeta_noConfigCheck(e) ==
    LET r == scanFields(e, 1, EmptyMeta)
    IN  IF r.err # nil THEN r
        ELSE IF r.meta.PrimaryName = "" \/ r.meta.PrimaryDB = ""
             THEN [meta |-> EmptyMeta, err |-> ErrNoPrimary]
        ELSE r

parseMeta(e) ==
    LET r == scanFields(e, 1, EmptyMeta)
    IN  IF r.err # nil THEN r
        ELSE IF r.meta.PrimaryName = "" \/ r.meta.PrimaryDB = ""
             THEN [meta |-> EmptyMeta, err |-> ErrNoPrimary]
        ELSE IF Len(r.meta.InsertCols) = 0
             THEN [meta |-> EmptyMeta, err |-> ErrStructConfig]
        ELSE r

(***************************************************************************)
(* The struct types handed to parseMeta.  A Go field always has a name,    *)
(* and the names of a struct's fields differ; the db tag may be absent     *)
(* (""), and two fields may carry the same db tag.                         *)
(***************************************************************************)
FieldNames == <<"ID", "Name", "Age", "Email", "Status">>
ColNames == <<"id", "name", "age", "email", "status">>

DBNames == {"", "id", "name"}

Tags ==
    { <<>>,
      <<"primary">>,
      <<"insert">>,
      <<"update">>,
      <<"primary", ",", "insert">>,
      <<"insert", ",", "update">>,
      <<"update", ",", "primary">>,
      <<"insert", ",", " update">> }

FieldKinds == [db : DBNames, tgw : Tags]

StructOf(k) ==
    [x \in 1..Len(k) |-> [Name |-> FieldNames[x], db |-> k[x].db, tgw |-> k[x].tgw]]

(***************************************************************************)
(* Specification of the metadata extraction alone.                         *)
(***************************************************************************)
NotParsed == [op |-> "none", err |-> nil, meta |-> EmptyMeta]

InitMeta ==
    /\ \E n \in 0..MaxFields : \E k \in [1..n -> FieldKinds] : fields = StructOf(k)
    /\ ent = <<>>
    /\ rows = <<>>
    /\ nextId = 1
    /\ sent = <<>>
    /\ call = NotParsed
    /\ dest = {}

ApplyParseMeta ==
    /\ LET r == parseMeta(fields)
       IN  call' = [op |-> "parseMeta", err |-> r.err, meta |-> r.meta]
    /\ UNCHANGED <<fields, ent, rows, nextId, sent, dest>>

\* one call in a behaviour: parseMeta is a function of the struct type
NextMeta == call.op = "none" /\ ApplyParseMeta

SpecMeta == InitMeta /\ [][NextMeta]_vars

(***************************************************************************)
(* The gateway: a table name and the handle (src/tgw.go:35-38, 62-67).     *)
(***************************************************************************)
table == "t"

DriverError == "driver error"
Default == 0

Range(q) == { q[i] : i \in 1..Len(q) }

InsertQuery(tbl, cols) ==
    "INSERT INTO " \o BQ \o tbl \o BQ \o " (" \o Join(quoteIdents(cols), ",")
        \o ") VALUES (" \o Join(quoteNamedValues(cols), ",") \o ")"

ReadQuery(tbl, pkdb) ==
    "SELECT * FROM " \o BQ \o tbl \o BQ \o " WHERE " \o BQ \o pkdb \o BQ \o " = ?"

UpdateQuery(tbl, cols, pkdb) ==
    "UPDATE " \o BQ \o tbl \o BQ \o " SET " \o Join(quoteUpdateSet(cols), ",")
        \o " WHERE " \o BQ \o pkdb \o BQ \o " = :" \o pkdb

DeleteQuery(tbl, pkdb) ==
    "DELETE FROM " \o BQ \o tbl \o BQ \o " WHERE " \o BQ \o pkdb \o BQ \o " = ?"

\* reflect's FieldByName on the struct type
FieldByName(e, name) == CHOOSE x \in 1..Len(e) : e[x].Name = name

getPriVal(e, v, destcfg) == v[FieldByName(e, destcfg.PrimaryName)]

\* uint64(insertID) of a non-negative int64, on the model's scaled word
Uint(n) == n % (UintRange + 1)

(***************************************************************************)
(* The handle.  The table's columns are the db names of the struct, its    *)
(* primary key is an auto-increment column, a column the INSERT does not   *)
(* name takes Default, and a named parameter :c is bound from the field    *)
(* whose db tag is c.  Every statement may fail in the driver; a statement *)
(* with an empty identifier or an empty SET list always does.              *)
(***************************************************************************)
Columns(e) == { e[x].db : x \in 1..Len(e) } \ {""}

FieldOfColumn(e, c) == CHOOSE x \in 1..Len(e) : e[x].db = c

\* the key of the row an INSERT would store
InsertKey(e, v, m) ==
    IF m.PrimaryDB \in Range(m.InsertCols) /\ getPriVal(e, v, m) # 0
    THEN getPriVal(e, v, m)
    ELSE nextId

InsertAccepted(e, v, m) ==
    /\ "" \notin Range(m.InsertCols)
    /\ InsertKey(e, v, m) \notin DOMAIN rows
    /\ InsertKey(e, v, m) <= MaxId

InsertedRow(e, v, m) ==
    [c \in Columns(e) |->
        IF c = m.PrimaryDB THEN InsertKey(e, v, m)
        ELSE IF c \in Range(m.InsertCols) THEN v[FieldOfColumn(e, c)]
        ELSE Default]

UpdateAccepted(m) ==
    /\ Len(m.UpdateCols) > 0
    /\ "" \notin Range(m.UpdateCols)

UpdatedRow(e, v, m, row) ==
    [c \in DOMAIN row |->
        IF c \in Range(m.UpdateCols) /\ c # m.PrimaryDB
        THEN v[FieldOfColumn(e, c)]
        ELSE row[c]]

\* sqlx's scan of one row into the struct
Scanned(e, v, row) ==
    [x \in DOMAIN v |-> IF e[x].db \in DOMAIN row THEN row[e[x].db] ELSE v[x]]

Store(tab, id, row) ==
    [k \in DOMAIN tab \cup {id} |-> IF k = id THEN row ELSE tab[k]]

Remove(tab, id) == [k \in DOMAIN tab \ {id} |-> tab[k]]

Returned(op, err, id) == [op |-> op, err |-> err, insertID |-> id]

(***************************************************************************)
(* Create                                                                  *)
(***************************************************************************)
Create ==
    LET r == parseMeta(fields)
        destcfg == r.meta
        q == InsertQuery(table, destcfg.InsertCols)
        id == InsertKey(fields, ent, destcfg)
    IN  \/ /\ r.err # nil
           /\ call' = Returned("Create", r.err, 0)
           /\ sent' = <<>>
           /\ UNCHANGED <<fields, ent, rows, nextId, dest>>
        \/ /\ r.err = nil
           /\ sent' = <<[fn |-> "NamedExec", q |-> q, args |-> <<ent>>]>>
           /\ \/ /\ call' = Returned("Create", DriverError, 0)
                 /\ UNCHANGED <<fields, ent, rows, nextId, dest>>
              \/ /\ InsertAccepted(fields, ent, destcfg)
                 /\ rows' = Store(rows, id, InsertedRow(fields, ent, destcfg))
                 /\ nextId' = IF id >= nextId THEN id + 1 ELSE nextId
                 /\ \/ /\ call' = Returned("Create", DriverError, 0)
                       /\ UNCHANGED <<fields, ent, dest>>
                    \/ /\ call' = Returned("Create", nil, id)
                       /\ ent' = [ent EXCEPT
                                    ![FieldByName(fields, destcfg.PrimaryName)] = Uint(id)]
                       /\ UNCHANGED <<fields, dest>>

(***************************************************************************)
(* Read                                                                    *)
(***************************************************************************)
Read ==
    LET r == parseMeta(fields)
        destcfg == r.meta
        q == ReadQuery(table, destcfg.PrimaryDB)
        pri == getPriVal(fields, ent, destcfg)
    IN  \/ /\ r.err # nil
           /\ call' = Returned("Read", r.err, 0)
           /\ sent' = <<>>
           /\ UNCHANGED <<fields, ent, rows, nextId, dest>>
        \/ /\ r.err = nil
           /\ sent' = <<[fn |-> "Get", q |-> q, args |-> <<pri>>]>>
           /\ \/ /\ call' = Returned("Read", DriverError, 0)
                 /\ UNCHANGED <<fields, ent, rows, nextId, dest>>
              \/ /\ pri \in DOMAIN rows
                 /\ ent' = Scanned(fields, ent, rows[pri])
                 /\ call' = Returned("Read", nil, 0)
                 /\ UNCHANGED <<fields, rows, nextId, dest>>

(***************************************************************************)
(* Update                                                                  *)
(***************************************************************************)
Update ==
    LET r == parseMeta(fields)
        destcfg == r.meta
        q == UpdateQuery(table, destcfg.UpdateCols, destcfg.PrimaryDB)
        pri == getPriVal(fields, ent, destcfg)
    IN  \/ /\ r.err # nil
           /\ call' = Returned("Update", r.err, 0)
           /\ sent' = <<>>
           /\ UNCHANGED <<fields, ent, rows, nextId, dest>>
        \/ /\ r.err = nil
           /\ sent' = <<[fn |-> "NamedExec", q |-> q, args |-> <<ent>>]>>
           /\ \/ /\ call' = Returned("Update", DriverError, 0)
                 /\ UNCHANGED <<fields, ent, rows, nextId, dest>>
              \/ /\ UpdateAccepted(destcfg)
                 /\ rows' = IF pri \in DOMAIN rows
                            THEN Store(rows, pri, UpdatedRow(fields, ent, destcfg, rows[pri]))
                            ELSE rows
                 /\ call' = Returned("Update", nil, 0)
                 /\ UNCHANGED <<fields, ent, nextId, dest>>

(***************************************************************************)
(* Delete                                                                  *)
(***************************************************************************)
\* Delete with the statement sent before the metadata error is looked at
Delete_sendFirst ==
    LET r == parseMeta(fields)
        destcfg == r.meta
        q == DeleteQuery(table, destcfg.PrimaryDB)
    IN  \/ /\ r.err # nil
           /\ call' = Returned("Delete", r.err, 0)
           /\ sent' = <<[fn |-> "Exec", q |-> q, args |-> <<0>>]>>
           /\ UNCHANGED <<fields, ent, rows, nextId, dest>>
        \/ /\ r.err = nil
           /\ sent' = <<[fn |-> "Exec", q |-> q, args |-> <<getPriVal(fields, ent, destcfg)>>]>>
           /\ call' = Returned("Delete", DriverError, 0)
           /\ UNCHANGED <<fields, ent, rows, nextId, dest>>

Delete ==
    LET r == parseMeta(fields)
        destcfg == r.meta
        q == DeleteQuery(table, destcfg.PrimaryDB)
        pri == getPriVal(fields, ent, destcfg)
    IN  \/ /\ r.err # nil
           /\ call' = Returned("Delete", r.err, 0)
           /\ sent' = <<>>
           /\ UNCHANGED <<fields, ent, rows, nextId, dest>>
        \/ /\ r.err = nil
           /\ sent' = <<[fn |-> "Exec", q |-> q, args |-> <<pri>>]>>
           /\ \/ /\ call' = Returned("Delete", DriverError, 0)
                 /\ UNCHANGED <<fields, ent, rows, nextId, dest>>
              \/ /\ rows' = Remove(rows, pri)
                 /\ call' = Returned("Delete", nil, 0)
                 /\ UNCHANGED <<fields, ent, nextId, dest>>

(***************************************************************************)
(* The entities handed to the CRUD operations: every field is tagged with  *)
(* its own column name or with none, the primary field is an unsigned      *)
(* integer that starts at zero and every other field holds a value of its  *)
(* own that is not the column default.                                     *)
(***************************************************************************)
EntTags ==
    { <<>>,
      <<"primary">>,
      <<"insert">>,
      <<"update">>,
      <<"primary", ",", "insert">>,
      <<"insert", ",", "update">> }

EntKinds ==
    [hasdb : BOOLEAN, tgw : EntTags]
        \ { [hasdb |-> FALSE, tgw |-> <<>>],
            [hasdb |-> FALSE, tgw |-> <<"primary", ",", "insert">>] }

EntityOf(k) ==
    [x \in 1..Len(k) |->
        [Name |-> FieldNames[x],
         db |-> IF k[x].hasdb THEN ColNames[x] ELSE "",
         tgw |-> k[x].tgw]]

NewEntity(e) ==
    [x \in 1..Len(e) |-> IF inArray(tgwPrimary, Split(e[x].tgw)) THEN 0 ELSE x]

Init ==
    /\ \E n \in 0..MaxEntFields : \E k \in [1..n -> EntKinds] : fields = EntityOf(k)
    /\ ent = NewEntity(fields)
    /\ rows = <<>>
    /\ nextId = 1
    /\ sent = <<>>
    /\ call = Returned("none", nil, 0)
    /\ dest = {}

Next == Create \/ Read \/ Update \/ Delete

Spec == Init /\ [][Next]_vars

(***************************************************************************)
(* Select.  The two range loops visit the keys of their map in an order    *)
(* the runtime chooses: ord and oord are those orders.                     *)
(***************************************************************************)
\* the loop with the key put in front of names while the value is appended
RECURSIVE rangeParams_misaligned(_, _, _)
rangeParams_misaligned(params, ord, acc) ==
    IF Len(ord) = 0 THEN acc
    ELSE rangeParams_misaligned(params, Tail(ord),
            [args |-> Append(acc.args, params[Head(ord)]),
             names |-> <<Head(ord)>> \o acc.names])

\* the loop of src/tgw.go:179-182: one value and one key appended per key
RECURSIVE rangeParams(_, _, _)
rangeParams(params, ord, acc) ==
    IF Len(ord) = 0 THEN acc
    ELSE rangeParams(params, Tail(ord),
            [args |-> Append(acc.args, params[Head(ord)]),
             names |-> Append(acc.names, Head(ord))])

\* the loop of src/tgw.go:192-194
RECURSIVE rangeOrderBy(_, _, _)
rangeOrderBy(orderby, oord, obs) ==
    IF Len(oord) = 0 THEN obs
    ELSE rangeOrderBy(orderby, Tail(oord),
            Append(obs, Head(oord) \o " " \o orderby[Head(oord)]))

\* SelectQuery with the WHERE keyword written whatever the number of names
SelectQuery_alwaysWhere(tbl, names, orderby, oord) ==
    LET q0 == "SELECT * FROM " \o BQ \o tbl \o BQ
        q1 == q0 \o " " \o "WHERE " \o Join(quoteSelectSet(names), " AND ")
    IN  IF Cardinality(DOMAIN orderby) > 0
        THEN q1 \o " ORDER BY " \o Join(rangeOrderBy(orderby, oord, <<>>), ",")
        ELSE q1

SelectQuery(tbl, names, orderby, oord) ==
    LET q0 == "SELECT * FROM " \o BQ \o tbl \o BQ
        q1 == IF Len(names) > 0
              THEN q0 \o " " \o "WHERE " \o Join(quoteSelectSet(names), " AND ")
              ELSE q0
    IN  IF Cardinality(DOMAIN orderby) > 0
        THEN q1 \o " ORDER BY " \o Join(rangeOrderBy(orderby, oord, <<>>), ",")
        ELSE q1

\* the orders in which a map with the keys S can be ranged over
Orders(S) ==
    { o \in [1..Cardinality(S) -> S] : \A i, j \in DOMAIN o : o[i] = o[j] => i = j }

SelCols == {"status", "created_at", "name"}
SelValues == {"active", "closed"}
Directions == {"asc", "desc"}

MapsTo(vals) ==
    UNION { [S -> vals] : S \in { T \in SUBSET SelCols : Cardinality(T) <= MaxTerms } }

\* the rows the statement selects; the handle refuses a column the table
\* does not have
SelectAccepted(params, orderby) ==
    \A id \in DOMAIN rows : (DOMAIN params \cup DOMAIN orderby) \subseteq DOMAIN rows[id]

Matching(params) ==
    { id \in DOMAIN rows : \A k \in DOMAIN params : rows[id][k] = params[k] }

Select ==
    \E params \in MapsTo(SelValues), orderby \in MapsTo(Directions) :
    \E ord \in Orders(DOMAIN params), oord \in Orders(DOMAIN orderby) :
        LET l == rangeParams(params, ord, [args |-> <<>>, names |-> <<>>])
            q == SelectQuery(table, l.names, orderby, oord)
        IN  /\ sent' = <<[fn |-> "Select", q |-> q, args |-> l.args]>>
            /\ \/ /\ call' = [op |-> "Select", err |-> DriverError,
                              params |-> params, orderby |-> orderby]
                  /\ UNCHANGED <<fields, ent, rows, nextId, dest>>
               \/ /\ SelectAccepted(params, orderby)
                  /\ dest' = Matching(params)
                  /\ call' = [op |-> "Select", err |-> nil,
                              params |-> params, orderby |-> orderby]
                  /\ UNCHANGED <<fields, ent, rows, nextId>>

(***************************************************************************)
(* Specification of Select: a table of up to MaxId rows behind the handle. *)
(***************************************************************************)
SelRow(id, status) ==
    [c \in {"id"} \cup SelCols |->
        IF c = "id" THEN id ELSE IF c = "status" THEN status
        ELSE IF c = "created_at" THEN "2019" ELSE "bob"]

InitSelect ==
    /\ fields = <<>>
    /\ ent = <<>>
    /\ \E n \in 0..MaxId : \E st \in [1..n -> SelValues] :
          rows = [id \in 1..n |-> SelRow(id, st[id])]
    /\ nextId = Cardinality(DOMAIN rows) + 1
    /\ sent = <<>>
    /\ call = [op |-> "none", err |-> nil, params |-> <<>>, orderby |-> <<>>]
    /\ dest = {}

\* one call in a behaviour: Select keeps nothing from one call to the next
NextSelect == call.op = "none" /\ Select

SpecSelect == InitSelect /\ [][NextSelect]_vars

(***************************************************************************)
(* What the claims call a tagged field, stated on the tag itself: a role   *)
(* keyword that stands alone between the separators of the tgw tag.        *)
(***************************************************************************)
Tagged(f, role) ==
    \E i \in 1..Len(f.tgw) :
        /\ f.tgw[i] = role
        /\ (i = 1 \/ f.tgw[i - 1] = ",")
        /\ (i = Len(f.tgw) \/ f.tgw[i + 1] = ",")

FieldsTagged(e, role) == { x \in 1..Len(e) : Tagged(e[x], role) }

Writable(e) == FieldsTagged(e, tgwInsert) \cup FieldsTagged(e, tgwUpdate)

\* the db column names of the fields tagged role, in declaration order
RECURSIVE ColsTagged(_, _)
ColsTagged(e, role) ==
    IF Len(e) = 0 THEN <<>>
    ELSE ColsTagged(SubSeq(e, 1, Len(e) - 1), role)
         \o (IF Tagged(e[Len(e)], role) THEN <<e[Len(e)].db>> ELSE <<>>)

ThePrimary(e) == CHOOSE x \in FieldsTagged(e, tgwPrimary) : TRUE

Parsed == call.op = "parseMeta"

MetaIsTheTaggedColumns ==
    /\ call.err = nil
    /\ call.meta.InsertCols = ColsTagged(fields, tgwInsert)
    /\ call.meta.UpdateCols = ColsTagged(fields, tgwUpdate)
    /\ call.meta.PrimaryName = fields[ThePrimary(fields)].Name
    /\ call.meta.PrimaryDB = fields[ThePrimary(fields)].db

\* C1 as stated: one field tagged primary and at least one writable field
\* (tagged insert or update): parseMeta succeeds and the column lists are the
\* tagged columns in declaration order.
C1_AsStated ==
    (Parsed /\ Cardinality(FieldsTagged(fields, tgwPrimary)) = 1
            /\ Writable(fields) # {})
        => MetaIsTheTaggedColumns

\* C1 (amended): one field tagged primary whose db column name is not empty,
\* and at least one field tagged insert: parseMeta succeeds, InsertCols and
\* UpdateCols are the db names of the fields tagged insert and update in
\* declaration order, PrimaryName/PrimaryDB are the primary field's name and
\* column.
C1_ValidStructParses ==
    (Parsed /\ Cardinality(FieldsTagged(fields, tgwPrimary)) = 1
            /\ fields[ThePrimary(fields)].db # ""
            /\ FieldsTagged(fields, tgwInsert) # {})
        => MetaIsTheTaggedColumns

C1_Witness ==
    /\ Parsed
    /\ Cardinality(FieldsTagged(fields, tgwPrimary)) = 1
    /\ call.err = nil
    /\ call.meta.InsertCols = <<"name", "id">>
    /\ call.meta.UpdateCols = <<"id">>
    /\ call.meta.PrimaryName = "Age"

\* C2: a struct with no field tagged primary fails with ErrNoPrimary,
\* whatever insert and update tags its fields carry.
C2_NoPrimaryFails ==
    (Parsed /\ FieldsTagged(fields, tgwPrimary) = {}) => call.err = ErrNoPrimary

C2_Witness ==
    /\ Parsed
    /\ FieldsTagged(fields, tgwPrimary) = {}
    /\ FieldsTagged(fields, tgwInsert) # {}
    /\ FieldsTagged(fields, tgwUpdate) # {}
    /\ call.err = ErrNoPrimary

\* C3: a struct with two or more fields tagged primary fails with
\* ErrMultiPrimary, whatever its db tags and insert/update tags are.
C3_MultiPrimaryFails ==
    (Parsed /\ Cardinality(FieldsTagged(fields, tgwPrimary)) >= 2)
        => call.err = ErrMultiPrimary

C3_Witness ==
    /\ Parsed
    /\ Cardinality(FieldsTagged(fields, tgwPrimary)) >= 2
    /\ FieldsTagged(fields, tgwInsert) = {}
    /\ \A x \in FieldsTagged(fields, tgwPrimary) : fields[x].db = ""
    /\ call.err = ErrMultiPrimary

\* C4 as stated: a struct with a primary field and no writable field fails
\* with ErrStructConfig and with no other error.
C4_AsStated ==
    (Parsed /\ Cardinality(FieldsTagged(fields, tgwPrimary)) = 1
            /\ Writable(fields) = {})
        => call.err = ErrStructConfig

\* C4 (amended): a struct with one primary field whose db column name is not
\* empty and no writable field fails with ErrStructConfig.
C4_NoWritableFails ==
    (Parsed /\ Cardinality(FieldsTagged(fields, tgwPrimary)) = 1
            /\ fields[ThePrimary(fields)].db # ""
            /\ Writable(fields) = {})
        => call.err = ErrStructConfig

C4_Witness ==
    /\ Parsed
    /\ Len(fields) >= 2
    /\ Cardinality(FieldsTagged(fields, tgwPrimary)) = 1
    /\ fields[ThePrimary(fields)].db # ""
    /\ Writable(fields) = {}
    /\ call.err = ErrStructConfig

(***************************************************************************)
(* The statements the claims expect, written out from the claims' words.   *)
(***************************************************************************)
CrudOps == {"Create", "Read", "Update", "Delete"}
ValidationErrors == {ErrStructConfig, ErrNoPrimary, ErrMultiPrimary}

\* one primary field with a column name, and an insert column
ValidTags(e) ==
    /\ Cardinality(FieldsTagged(e, tgwPrimary)) = 1
    /\ e[ThePrimary(e)].db # ""
    /\ FieldsTagged(e, tgwInsert) # {}

\* pre c post for every c of cols, in order, with sep in between
RECURSIVE Listed(_, _, _, _)
Listed(cols, pre, post, sep) ==
    IF Len(cols) = 0 THEN ""
    ELSE IF Len(cols) = 1 THEN pre \o cols[1] \o post
    ELSE Listed(SubSeq(cols, 1, Len(cols) - 1), pre, post, sep)
         \o sep \o pre \o cols[Len(cols)] \o post

ExpectedInsert(cols) ==
    "INSERT INTO 't' (" \o Listed(cols, "'", "'", ",")
        \o ") VALUES (" \o Listed(cols, ":", "", ",") \o ")"

RECURSIVE Assignments(_)
Assignments(cols) ==
    IF Len(cols) = 0 THEN ""
    ELSE (IF Len(cols) = 1 THEN "" ELSE Assignments(SubSeq(cols, 1, Len(cols) - 1)) \o ",")
         \o "'" \o cols[Len(cols)] \o "' = :" \o cols[Len(cols)]

ExpectedUpdate(cols, pk) ==
    "UPDATE 't' SET " \o Assignments(cols) \o " WHERE '" \o pk \o "' = :" \o pk

WherePart(ord) ==
    IF Len(ord) = 0 THEN "" ELSE " WHERE " \o Listed(ord, "'", "' = ?", " AND ")

RECURSIVE OrderTerms(_, _)
OrderTerms(orderby, oord) ==
    IF Len(oord) = 0 THEN ""
    ELSE (IF Len(oord) = 1 THEN ""
          ELSE OrderTerms(orderby, SubSeq(oord, 1, Len(oord) - 1)) \o ",")
         \o oord[Len(oord)] \o " " \o orderby[oord[Len(oord)]]

OrderPart(orderby, oord) ==
    IF Len(oord) = 0 THEN "" ELSE " ORDER BY " \o OrderTerms(orderby, oord)

\* C5: in Create, Read, Update and Delete, when the metadata extraction fails
\* with a validation error the call returns that error, no statement has
\* been handed to the database handle, and the entity and the table are as
\* they were before the call.
C5_FailFast ==
    [][ (call'.op \in CrudOps /\ ~ValidTags(fields))
            => /\ call'.err \in ValidationErrors
               /\ call'.err = parseMeta(fields).err
               /\ sent' = <<>>
               /\ ent' = ent
               /\ rows' = rows ]_vars

C5_Witness ==
    /\ call.op = "Update"
    /\ call.err = ErrMultiPrimary
    /\ sent = <<>>
    /\ ent = NewEntity(fields)

\* C6: Create on an entity with valid metadata issues exactly one statement,
\* INSERT INTO 't' (<quoted insert columns in declaration order>) VALUES
\* (<:column placeholders in the same order>); on success the primary field
\* equals the last-inserted id the driver reported and no other field
\* changes; on a driver error that error is returned and the entity is as it
\* was.
C6_CreateInserts ==
    [][ (call'.op = "Create" /\ ValidTags(fields))
            => /\ Len(sent') = 1
               /\ sent'[1].q = ExpectedInsert(ColsTagged(fields, tgwInsert))
               /\ call'.err \in {nil, DriverError}
               /\ call'.err = nil =>
                     /\ ent'[ThePrimary(fields)] = call'.insertID
                     /\ call'.insertID \in DOMAIN rows'
                     /\ \A x \in DOMAIN ent \ {ThePrimary(fields)} : ent'[x] = ent[x]
               /\ call'.err # nil => ent' = ent ]_vars

C6_Witness ==
    /\ call.op = "Create"
    /\ call.err = nil
    /\ Len(sent) = 1
    /\ sent[1].q = "INSERT INTO 't' ('name','age') VALUES (:name,:age)"
    /\ fields[ThePrimary(fields)].Name = "ID"
    /\ ent[ThePrimary(fields)] = call.insertID
    /\ call.insertID # 0

\* C8 as stated: after a successful Create, a successful Read leaves every
\* writable field (tagged insert or update) with the value it had when the
\* entity was written, and the primary field with the generated key.
C8_AsStated ==
    [][ (call.op = "Create" /\ call.err = nil /\ call'.op = "Read" /\ call'.err = nil)
            => /\ \A x \in Writable(fields) : ent'[x] = ent[x]
               /\ ent'[ThePrimary(fields)] = call.insertID ]_vars

\* C8 (amended): after a successful Create, a successful Read leaves every
\* field tagged insert with the value that was written, and the primary
\* field with the generated key.
C8_RoundTrip ==
    [][ (call.op = "Create" /\ call.err = nil /\ call'.op = "Read" /\ call'.err = nil)
            => /\ \A x \in FieldsTagged(fields, tgwInsert) : ent'[x] = ent[x]
               /\ ent'[ThePrimary(fields)] = call.insertID ]_vars

C8_Witness ==
    /\ call.op = "Read"
    /\ call.err = nil
    /\ ValidTags(fields)
    /\ ent[ThePrimary(fields)] \in DOMAIN rows
    /\ \E x \in FieldsTagged(fields, tgwInsert) \ FieldsTagged(fields, tgwPrimary) :
          ent[x] = x
    /\ \E x \in FieldsTagged(fields, tgwUpdate) \ FieldsTagged(fields, tgwInsert) :
          ent[x] = Default

\* C9 as stated: when the metadata extraction succeeds, the one statement
\* Update issues is UPDATE 't' SET <'c' = :c per update column, in
\* declaration order> WHERE 'pk' = :pk with at least one assignment, and
\* Update returns the driver's verdict.
C9_AsStated ==
    (call.op = "Update" /\ ValidTags(fields))
        => /\ Len(sent) = 1
           /\ sent[1].q = ExpectedUpdate(ColsTagged(fields, tgwUpdate),
                                         fields[ThePrimary(fields)].db)
           /\ Len(ColsTagged(fields, tgwUpdate)) >= 1
           /\ call.err \in {nil, DriverError}

\* C7: Select builds SELECT * FROM 't', then a WHERE clause exactly when the
\* filter map is not empty (one 'col' = ? term per key, joined by AND), then
\* an ORDER BY clause exactly when the ordering map is not empty (one
\* unquoted "col dir" term per key, comma-separated); with neither, the
\* query is SELECT * FROM 't' with no bound argument.
C7_SelectQueryShape ==
    call.op = "Select"
        => /\ Len(sent) = 1
           /\ \E ord \in Orders(DOMAIN call.params), oord \in Orders(DOMAIN call.orderby) :
                 sent[1].q = "SELECT * FROM 't'" \o WherePart(ord)
                                \o OrderPart(call.orderby, oord)
           /\ (DOMAIN call.params = {} /\ DOMAIN call.orderby = {})
                 => (sent[1].q = "SELECT * FROM 't'" /\ sent[1].args = <<>>)

C7_Witness ==
    /\ call.op = "Select"
    /\ DOMAIN call.params = {"status"}
    /\ call.params["status"] = "active"
    /\ DOMAIN call.orderby = {"created_at"}
    /\ call.orderby["created_at"] = "desc"
    /\ sent[1].q = "SELECT * FROM 't' WHERE 'status' = ? ORDER BY created_at desc"
    /\ sent[1].args = <<"active">>

\* C10: in Select, for every filter map and every order in which it is
\* ranged over, there are as many ? placeholders as bound arguments, the
\* k-th bound argument is the filter map's value for the column of the k-th
\* placeholder, and the ordering map adds no bound argument.
C10_ArgsFollowPlaceholders ==
    call.op = "Select"
        => \E ord \in Orders(DOMAIN call.params) :
              /\ \E oord \in Orders(DOMAIN call.orderby) :
                    sent[1].q = "SELECT * FROM 't'" \o WherePart(ord)
                                   \o OrderPart(call.orderby, oord)
              /\ Len(sent[1].args) = Len(ord)
              /\ Len(sent[1].args) = Cardinality(DOMAIN call.params)
              /\ \A k \in 1..Len(ord) : sent[1].args[k] = call.params[ord[k]]

C10_Witness ==
    /\ call.op = "Select"
    /\ call.err = nil
    /\ DOMAIN call.params = {"status", "name"}
    /\ DOMAIN call.orderby = {"created_at"}
    /\ sent[1].q = "SELECT * FROM 't' WHERE 'name' = ? AND 'status' = ? ORDER BY created_at asc"
    /\ sent[1].args = <<"closed", "active">>

====
